---------------------------- MODULE Spec2Model ----------------------------
(***************************************************************************)
(* cancomms: a CAN <-> TCP bridge.                                         *)
(*                                                                         *)
(*   src/src/frame.rs   CanFrameCodec: the wire codec (encode / decode)    *)
(*   src/src/main.rs    pump_frames: the select! loop over the bus socket  *)
(*                      and the framed TCP connection                      *)
(*                                                                         *)
(* Specifications:                                                         *)
(*   SpecCodec   the codec alone: a buffer, bytes arriving, encode and     *)
(*               decode calls on it;                                       *)
(*   Spec        one pump_frames session;                                  *)
(*   SpecFair    the same session with both select! branches fair;         *)
(*   SpecListen  the listen driver: accept, then the session.              *)
(*                                                                         *)
(* A u32 ID word w is held as the pair [hi, lo] with w = hi * 2^29 + lo,   *)
(* hi = bits 31..29 (EFF, RTR, ERR) and lo = bits 28..0: the model         *)
(* checker's integers are 32-bit signed and cannot hold bit 31.            *)
(***************************************************************************)
EXTENDS Integers, Sequences, FiniteSets, TLC

VARIABLES
    \* ---- SpecCodec ----
    cbuf,       \* the BytesMut handed to encode (dst) / decode (src)
    cpend,      \* bytes of the input stream that have not arrived yet
    item,       \* the frame value handed to encode
    last,       \* the most recent codec call: op, buffer before/after, result
    prev,       \* the codec call before it
    \* ---- Spec: one pump_frames session ----
    status,     \* the session: "Running", "Closed", "Faulted" or "Panicked"
    tcp_reader, \* FramedRead: buffer, eof, is_readable, has_errored
    tcp_writer, \* FramedWrite: the bytes encoded and not yet written
    peerFrames, \* the frames the TCP peer encodes on the stream, in order
    unread,     \* the bytes of the peer's stream the reader has not read yet
    tcpOut,     \* the bytes written to the TCP connection
    busRead,    \* the frames read from the bus, in order
    busCalls,   \* the frames handed to can_socket.send, in order
    busErrSeen, \* a bus read has failed in this session
    lastIter    \* what the last iteration of the loop did

cvars == <<cbuf, cpend, item, last, prev>>

pvars == <<status, tcp_reader, tcp_writer, peerFrames, unread, tcpOut, busRead,
           busCalls, busErrSeen, lastIter>>

vars == <<cbuf, cpend, item, last, prev, status, tcp_reader, tcp_writer, peerFrames,
          unread, tcpOut, busRead, busCalls, busErrSeen, lastIter>>

----------------------------------------------------------------------------
(* Bounds of the model *)

\* bytes that follow the 5-byte header in an input stream of SpecCodec
MaxTail == 10
\* the codec buffer never grows past this many bytes in SpecCodec
MaxBuf == 16
\* stray bytes that may arrive before or after an encoded frame in SpecCodec
MaxStray == 2
\* frames the TCP peer sends in one session
MaxPeerFrames == 2
\* frames read from the bus in one session
MaxBusFrames == 2

----------------------------------------------------------------------------
(* Program constants *)

\* [u8; 8]: the payload array of the C can_frame struct (frame.rs:71 indexes it)
CAN_MAX_DLEN == 8
\* the wire header: put_u32 + put_u8 (frame.rs:16, frame.rs:47)
HEADER_LEN == 5

Byte == 0..255


----------------------------------------------------------------------------
(* Sequences *)

Take(s, n) == SubSeq(s, 1, n)
Drop(s, n) == SubSeq(s, n + 1, Len(s))
IsPrefix(p, s) == Len(p) <= Len(s) /\ Take(s, Len(p)) = p

----------------------------------------------------------------------------
(* ID words and IdFlags: bit 31 EFF, bit 30 RTR, bit 29 ERR *)

Word(hi, lo) == [hi |-> hi, lo |-> lo]

IsEFF(w) == (w.hi \div 4) % 2 = 1
\* the remote flag looked up under the error flag's bit
IsRTR_bit29(w) == w.hi % 2 = 1
IsRTR(w) == (w.hi \div 2) % 2 = 1
IsERR(w) == w.hi % 2 = 1

\* the word written least significant byte first
put_u32_le(w) ==
    << w.lo % 256,
       (w.lo \div 256) % 256,
       (w.lo \div 65536) % 256,
       w.hi * 32 + (w.lo \div 16777216) >>

\* BufMut::put_u32: the word, big-endian
put_u32(w) ==
    << w.hi * 32 + (w.lo \div 16777216),
       (w.lo \div 65536) % 256,
       (w.lo \div 256) % 256,
       w.lo % 256 >>

\* u32::from_be_bytes
from_be_bytes(b) ==
    Word(b[1] \div 32,
         (b[1] % 32) * 16777216 + b[2] * 65536 + b[3] * 256 + b[4])

\* Frame::raw_id / Frame::hal_id: the identifier, masked to 29 bits (CAN_EFF_MASK)
\* or to 11 bits (CAN_SFF_MASK)
raw_id(w) == IF IsEFF(w) THEN w.lo % 536870912 ELSE w.lo % 2048

----------------------------------------------------------------------------
(* Frames: the CanFrame enum over the C can_frame struct *)

ZeroData == [i \in 1..CAN_MAX_DLEN |-> 0]

\* socketcan::frame::can_frame_default(): all fields zero
can_frame_default == [can_id |-> Word(0, 0), can_dlc |-> 0, data |-> ZeroData]

\* the variant chosen from the RTR flag alone
CanFrameFrom_rtr_only(cf) ==
    [kind |-> IF IsRTR(cf.can_id) THEN "Remote" ELSE "Data",
     can_id |-> cf.can_id, can_dlc |-> cf.can_dlc, data |-> cf.data]

\* CanFrame::from(can_frame): the variant follows the ERR and RTR flags
CanFrameFrom(cf) ==
    [kind |-> IF IsERR(cf.can_id) THEN "Error"
              ELSE IF IsRTR(cf.can_id) THEN "Remote" ELSE "Data",
     can_id |-> cf.can_id, can_dlc |-> cf.can_dlc, data |-> cf.data]

\* the ID word rebuilt from the flags and the masked identifier
id_word_masked(f) == Word(f.can_id.hi, raw_id(f.can_id))

\* Frame::id_word(): the can_id field as it is, flags included
id_word(f) == f.can_id
\* Frame::len() == dlc()
FrameLen(f) == f.can_dlc
\* EmbeddedFrame::data(): the first dlc bytes of the payload array
FrameData(f) == [i \in 1..f.can_dlc |-> f.data[i]]

Pad(p) == [i \in 1..CAN_MAX_DLEN |-> IF i <= Len(p) THEN p[i] ELSE 0]

\* CanFrame::from_raw_id / CanDataFrame::new: a Data frame from an Id and a payload
DataFrame(ext, id, p) ==
    [kind |-> "Data", can_id |-> Word(IF ext THEN 4 ELSE 0, id),
     can_dlc |-> Len(p), data |-> Pad(p)]

\* CanFrame::remote_from_raw_id / CanRemoteFrame::new_remote
RemoteFrame(ext, id, dlc) ==
    [kind |-> "Remote", can_id |-> Word(IF ext THEN 6 ELSE 2, id),
     can_dlc |-> dlc, data |-> ZeroData]

\* a bus error frame (CanErrorFrame): ERR flag, error class in the identifier
ErrorFrame(class) ==
    [kind |-> "Error", can_id |-> Word(1, class),
     can_dlc |-> CAN_MAX_DLEN, data |-> ZeroData]

NoFrame == [kind |-> "None", can_id |-> Word(0, 0), can_dlc |-> 0, data |-> ZeroData]

----------------------------------------------------------------------------
(* CanFrameCodec::encode, frame.rs:12-39 *)

\* the bytes the Data arm appends
EncodeData(d) == put_u32(id_word(d)) \o <<FrameLen(d) % 256>> \o FrameData(d)

\* a Remote arm that also writes the payload array
EncodeRemote_with_payload(r) ==
    put_u32(id_word(r)) \o <<FrameLen(r) % 256>> \o FrameData(r)

\* the bytes the Remote arm appends
EncodeRemote(r) == put_u32(id_word(r)) \o <<FrameLen(r) % 256>>

encode(f, dst) ==
    CASE f.kind = "Data"   -> [res |-> "Ok", dst |-> dst \o EncodeData(f)]
      [] f.kind = "Remote" -> [res |-> "Ok", dst |-> dst \o EncodeRemote(f)]
      [] OTHER             -> [res |-> "Panic", dst |-> dst]      \* todo!()

----------------------------------------------------------------------------
(* CanFrameCodec::decode, frame.rs:46-77 *)

\* the payload copied from the start of the buffer instead of after the header
CopyPayload_no_offset(src, len) ==
    [i \in 1..CAN_MAX_DLEN |-> IF i <= len THEN src[i] ELSE 0]

\* can_frame.data[..len].copy_from_slice(&src[5..5 + len])
CopyPayload(src, len) ==
    [i \in 1..CAN_MAX_DLEN |-> IF i <= len THEN src[HEADER_LEN + i] ELSE 0]

\* a consumed prefix one byte short
advance_short(src, n) == Drop(src, n - 1)

\* Buf::advance
advance(src, n) == Drop(src, n)

\* a frame that is exactly complete is taken for a partial one
NeedMore_inclusive(src, len) == Len(src) <= HEADER_LEN + len

\* src.len() < 5 + len: the full frame has not yet arrived
NeedMore(src, len) == Len(src) < HEADER_LEN + len

decode(src) ==
    IF Len(src) < HEADER_LEN
    THEN [res |-> "None", frame |-> NoFrame, src |-> src]
    ELSE LET can_frame == [can_frame_default EXCEPT
                               !.can_id  = from_be_bytes(Take(src, 4)),
                               !.can_dlc = src[5]]
             len == can_frame.can_dlc
         IN  IF IsRTR(can_frame.can_id)
             THEN [res |-> "Some", frame |-> CanFrameFrom(can_frame),
                   src |-> advance(src, HEADER_LEN)]
             ELSE IF NeedMore(src, len)
                  THEN [res |-> "None", frame |-> NoFrame, src |-> src]
                  ELSE IF len > CAN_MAX_DLEN
                       \* can_frame.data[..len] with len > 8: the slice index is out
                       \* of range for [u8; 8] and the call panics
                       THEN [res |-> "Panic", frame |-> NoFrame, src |-> src]
                       ELSE [res |-> "Some",
                             frame |-> CanFrameFrom(
                                 [can_frame EXCEPT !.data = CopyPayload(src, len)]),
                             src |-> advance(src, HEADER_LEN + len)]

----------------------------------------------------------------------------
(* SpecCodec: the codec on its own.  Init draws either an input stream (a  *)
(* header followed by MaxTail bytes) for decode, or a frame value for      *)
(* encode together with a few stray bytes.  The bytes arrive in arbitrary  *)
(* pieces, and the codec is called on the buffer at any time.  A panic     *)
(* ends the behaviour.                                                     *)

\* ID words of the input streams: every combination of the three flags
TestIds == {10, 74565, 536870911}
TestWords == {Word(hi, lo) : hi \in 0..7, lo \in TestIds}
\* length bytes of the input streams
TestLens == {0, 1, 3, 8, 9, 255}

TailByte(i) == 17 * i
StreamTail == [i \in 1..MaxTail |-> TailByte(i)]
InputStreams == {put_u32(w) \o <<l>> \o StreamTail : w \in TestWords, l \in TestLens}

\* payloads of every length 0..8
Payload(n) == [i \in 1..n |-> 250 + i - n]
TestFrames ==
    {DataFrame(FALSE, id, Payload(n)) : id \in {10, 2047}, n \in 0..CAN_MAX_DLEN}
    \cup {DataFrame(TRUE, id, Payload(n)) : id \in TestIds, n \in 0..CAN_MAX_DLEN}
    \cup {RemoteFrame(FALSE, id, n) : id \in {10, 2047}, n \in {0, 3, 8}}
    \cup {RemoteFrame(TRUE, id, n) : id \in TestIds, n \in {0, 3, 8}}
    \cup {ErrorFrame(4)}

\* FramedRead::new: an empty buffer, in the "reading" state
NewReader == [buffer |-> <<>>, eof |-> FALSE, is_readable |-> FALSE,
              has_errored |-> FALSE]

NoIter == [branch |-> "none", out |-> "none", cause |-> "none", ok |-> TRUE,
           slept |-> FALSE]

\* the session state when pump_frames is entered
PumpStart ==
    /\ status = "Running"
    /\ tcp_reader = NewReader
    /\ tcp_writer = <<>>
    /\ tcpOut = <<>>
    /\ busRead = <<>>
    /\ busCalls = <<>>
    /\ busErrSeen = FALSE
    /\ lastIter = NoIter

NoCall == [op |-> "none", pre |-> <<>>, post |-> <<>>, res |-> "none",
           frame |-> NoFrame, arg |-> NoFrame]

\* the stray bytes that may surround an encoded frame
StrayBytes == [i \in 1..MaxStray |-> TailByte(i)]

CodecInit ==
    /\ cbuf = <<>>
    /\ \/ cpend \in InputStreams /\ item = NoFrame
       \/ cpend = StrayBytes /\ item \in TestFrames
    /\ last = NoCall
    /\ prev = NoCall
    /\ PumpStart /\ peerFrames = <<>> /\ unread = <<>>

CodecAlive == last.res # "Panic"

\* n more bytes of the stream arrive in the buffer
CodecFeed ==
    /\ CodecAlive
    /\ \E n \in 1..Len(cpend) :
          /\ Len(cbuf) + n <= MaxBuf
          /\ cbuf' = cbuf \o Take(cpend, n)
          /\ cpend' = Drop(cpend, n)
    /\ UNCHANGED <<item, last, prev>>
    /\ UNCHANGED pvars

CodecDecode ==
    /\ CodecAlive
    /\ LET r == decode(cbuf)
       IN  /\ cbuf' = r.src
           /\ last' = [op |-> "decode", pre |-> cbuf, post |-> r.src, res |-> r.res,
                       frame |-> r.frame, arg |-> NoFrame]
    /\ prev' = last
    /\ UNCHANGED <<cpend, item>>
    /\ UNCHANGED pvars

\* the frame values encode may be called with: the one drawn at Init, or the
\* frame the decode call just before returned
Encodable ==
    {item, IF last.op = "decode" /\ last.res = "Some" THEN last.frame ELSE NoFrame}
        \ {NoFrame}

CodecEncode ==
    /\ CodecAlive
    /\ Len(cbuf) + HEADER_LEN + CAN_MAX_DLEN <= MaxBuf
    /\ \E f \in Encodable :
         LET r == encode(f, cbuf)
         IN  /\ cbuf' = r.dst
             /\ last' = [op |-> "encode", pre |-> cbuf, post |-> r.dst, res |-> r.res,
                         frame |-> NoFrame, arg |-> f]
    /\ prev' = last
    /\ UNCHANGED <<cpend, item>>
    /\ UNCHANGED pvars

CodecNext == CodecFeed \/ CodecDecode \/ CodecEncode

SpecCodec == CodecInit /\ [][CodecNext]_vars

----------------------------------------------------------------------------
(* Spec: one pump_frames session, main.rs:56-112.                          *)
(*                                                                         *)
(* The TCP peer runs the same codec: its stream is the concatenation of    *)
(* the encodings of peerFrames, delivered to the reads in arbitrary pieces, *)
(* and it may close the connection or the connection may fail at any byte. *)
(* The bus socket is opened with CanSocket::open and no error filter, so   *)
(* the bus yields Data and Remote frames.                                  *)
(*                                                                         *)
(* One action is one completed branch of the select!: the poll that made   *)
(* the branch ready and the whole handler that follows it.  A flush        *)
(* attempt writes the whole write buffer or fails before writing.          *)

PeerFrameSet ==
    { DataFrame(FALSE, 10, <<1, 2, 3>>),
      RemoteFrame(TRUE, 536870911, 3) }

BusFrameSet ==
    { DataFrame(TRUE, 74565, <<9>>),
      RemoteFrame(FALSE, 10, 3) }

SeqsUpTo(S, n) == UNION {[1..k -> S] : k \in 0..n}

\* the peer's side of the codec: the stream that carries these frames
RECURSIVE Wire(_)
Wire(fs) == IF fs = <<>> THEN <<>> ELSE encode(Head(fs), <<>>).dst \o Wire(Tail(fs))

Init ==
    /\ PumpStart
    /\ peerFrames \in SeqsUpTo(PeerFrameSet, MaxPeerFrames)
    /\ unread = Wire(peerFrames)
    /\ cbuf = <<>> /\ cpend = <<>> /\ item = NoFrame /\ last = NoCall /\ prev = NoCall

\* Decoder::decode_eof (the default method): decode, and at None a non-empty
\* buffer is the error "bytes remaining on stream" (io::ErrorKind::Other)
decode_eof(buf) ==
    LET r == decode(buf)
    IN  IF r.res = "None" /\ buf # <<>>
        THEN [res |-> "Err", frame |-> NoFrame, src |-> buf]
        ELSE r

\* what one read of the socket returns
ReadPending == [kind |-> "Pending", bytes |-> <<>>]
ReadEof     == [kind |-> "Eof", bytes |-> <<>>]
ReadErr     == [kind |-> "Err", bytes |-> <<>>]
ReadBytes(b) == [kind |-> "Bytes", bytes |-> b]

PollResult(st, out, cause, frame, used) ==
    [st |-> st, out |-> out, cause |-> cause, frame |-> frame, used |-> used]

\* a reader that goes back to reading the socket after every frame
AfterFrame_read_first(st, rest) == [st EXCEPT !.buffer = rest, !.is_readable = FALSE]

\* the reader after decode has returned a frame: the rest of the buffer is kept
\* and the reader stays readable, so the next poll decodes before it reads
AfterFrame(st, rest) == [st EXCEPT !.buffer = rest]

\* FramedRead::poll_next under tcp_reader.next(): rd is what the next read of
\* the socket returns; a read after it finds nothing more (Pending).
\* out is "Frame" (Some(Ok)), "Err" (Some(Err)), "None", "Pending" or "Panic".
RECURSIVE poll_next(_, _, _)
poll_next(st, rd, used) ==
    IF st.has_errored
    THEN PollResult([st EXCEPT !.is_readable = FALSE, !.has_errored = FALSE],
                    "None", "errored", NoFrame, used)
    ELSE IF st.is_readable
    THEN IF st.eof
         THEN LET r == decode_eof(st.buffer)
              IN  CASE r.res = "Some" ->
                         PollResult(AfterFrame(st, r.src), "Frame", "eof",
                                    r.frame, used)
                    [] r.res = "Err" ->
                         PollResult([st EXCEPT !.has_errored = TRUE], "Err",
                                    "bytes remaining on stream", NoFrame, used)
                    [] r.res = "None" ->
                         PollResult([st EXCEPT !.is_readable = FALSE], "None", "eof",
                                    NoFrame, used)
                    [] OTHER -> PollResult(st, "Panic", "decode", NoFrame, used)
         ELSE LET r == decode(st.buffer)
              IN  CASE r.res = "Some" ->
                         PollResult(AfterFrame(st, r.src), "Frame", "decode",
                                    r.frame, used)
                    [] r.res = "None" ->
                         poll_next([st EXCEPT !.is_readable = FALSE], rd, used)
                    [] OTHER -> PollResult(st, "Panic", "decode", NoFrame, used)
    ELSE CASE rd.kind = "Pending" -> PollResult(st, "Pending", "read", NoFrame, used)
           [] rd.kind = "Err" ->
                PollResult([st EXCEPT !.has_errored = TRUE], "Err", "read", NoFrame, TRUE)
           [] rd.kind = "Eof" ->
                IF st.eof
                THEN PollResult(st, "None", "eof", NoFrame, TRUE)
                ELSE poll_next([st EXCEPT !.eof = TRUE, !.is_readable = TRUE],
                               ReadEof, TRUE)
           [] OTHER ->
                poll_next([st EXCEPT !.buffer = @ \o rd.bytes, !.eof = FALSE,
                                     !.is_readable = TRUE],
                          ReadPending, TRUE)

\* what the socket can return to the next read: nothing yet, some of the
\* bytes the peer sends next, the end of the stream, or a transport error
Reads ==
    {ReadPending, ReadEof, ReadErr}
        \cup {ReadBytes(Take(unread, n)) : n \in 1..Len(unread)}

\* the error arms keep the loop going: error!(...) and nothing else
OnBusError_return == "Faulted"
OnBusError == "Running"

OnTcpError == "Running"

\* None => todo!(): the process panics
OnNone == "Panicked"

\* tokio::time::sleep after the bus send, whatever the send returned
SleepAfterSend(sendOk) == TRUE

\* one poll_flush of the FramedWrite: the buffer goes out whole, or the write
\* fails and the buffer keeps its bytes
poll_flush(w, ok) ==
    IF ok THEN [buffer |-> <<>>, out |-> w.out \o w.buffer]
    ELSE w

\* a select! that throws away what the losing branch had buffered
DropNextFuture_discard(st) == [st EXCEPT !.buffer = <<>>]

\* select! drops the tcp_reader.next() future when the bus branch completes:
\* the future only borrows the FramedRead, whose buffer and flags stay
DropNextFuture(st) == st

\* ---- f = can_socket.next() ----

\* Some(Ok(f)): tcp_writer.send(f) (encode, flush), then tcp_writer.flush()
BusFrame ==
    /\ status = "Running"
    /\ Len(busRead) < MaxBusFrames
    /\ \E f \in BusFrameSet, w1 \in BOOLEAN, w2 \in BOOLEAN :
         LET e == encode(f, tcp_writer)
         IN  /\ busRead' = Append(busRead, f)
             /\ IF e.res = "Panic"
                THEN /\ status' = "Panicked"
                     /\ UNCHANGED <<tcp_writer, tcpOut>>
                     /\ lastIter' = [branch |-> "can", out |-> "Panic", cause |-> "encode",
                                     ok |-> FALSE, slept |-> FALSE]
                ELSE LET s1 == poll_flush([buffer |-> e.dst, out |-> tcpOut], w1)
                         s2 == poll_flush(s1, w2)
                     IN  /\ tcp_writer' = s2.buffer
                         /\ tcpOut' = s2.out
                         /\ status' = status
                         /\ lastIter' = [branch |-> "can", out |-> "Frame",
                                         cause |-> "read", ok |-> (w1 /\ w2),
                                         slept |-> FALSE]
    /\ tcp_reader' = DropNextFuture(tcp_reader)
    /\ UNCHANGED <<peerFrames, unread, busCalls, busErrSeen>>
    /\ UNCHANGED cvars

\* Some(Err(e)): error!("CAN io error")
BusError ==
    /\ status = "Running"
    /\ status' = OnBusError
    /\ busErrSeen' = TRUE
    /\ lastIter' = [branch |-> "can", out |-> "Err", cause |-> "read", ok |-> FALSE,
                    slept |-> FALSE]
    /\ tcp_reader' = DropNextFuture(tcp_reader)
    /\ UNCHANGED <<tcp_writer, peerFrames, unread, tcpOut, busRead, busCalls>>
    /\ UNCHANGED cvars

\* None => todo!()
BusNone ==
    /\ status = "Running"
    /\ status' = OnNone
    /\ lastIter' = [branch |-> "can", out |-> "None", cause |-> "eof", ok |-> TRUE,
                    slept |-> FALSE]
    /\ tcp_reader' = DropNextFuture(tcp_reader)
    /\ UNCHANGED <<tcp_writer, peerFrames, unread, tcpOut, busRead, busCalls, busErrSeen>>
    /\ UNCHANGED cvars

\* ---- f = tcp_reader.next() ----

\* the poll of tcp_reader.next() with rd as the socket's answer; a poll that
\* returns without reading is given Pending
Polled(rd) ==
    LET p == poll_next(tcp_reader, rd, FALSE)
    IN  IF p.used \/ rd.kind = "Pending" THEN p
        ELSE PollResult(tcp_reader, "Unused", "none", NoFrame, FALSE)

\* the poll reads bytes, finds no complete frame and stays pending: no arm runs
TcpPending(p) ==
    /\ p.out = "Pending"
    /\ p.st # tcp_reader
    /\ UNCHANGED <<status, busCalls, lastIter>>

\* Some(Ok(f)): can_socket.send(f), can_socket.flush(), sleep(10 ms).
\* A failed send or flush is logged and changes nothing else.
TcpFrame(p) ==
    /\ p.out = "Frame"
    /\ \E sendOk \in BOOLEAN :
         /\ busCalls' = Append(busCalls, p.frame)
         /\ lastIter' = [branch |-> "tcp", out |-> "Frame", cause |-> p.cause,
                         ok |-> sendOk, slept |-> SleepAfterSend(sendOk)]
    /\ UNCHANGED status

\* Some(Err(e)): error!("{}", e)
TcpError(p) ==
    /\ p.out = "Err"
    /\ status' = OnTcpError
    /\ lastIter' = [branch |-> "tcp", out |-> "Err", cause |-> p.cause, ok |-> FALSE,
                    slept |-> FALSE]
    /\ UNCHANGED busCalls

\* None => todo!()
TcpNone(p) ==
    /\ p.out = "None"
    /\ status' = OnNone
    /\ lastIter' = [branch |-> "tcp", out |-> "None", cause |-> p.cause, ok |-> TRUE,
                    slept |-> FALSE]
    /\ UNCHANGED busCalls

\* one completion of tcp_reader.next() and the arm of the match it selects
TcpNext ==
    /\ status = "Running"
    /\ \E rd \in Reads :
         LET p == Polled(rd)
         IN  /\ tcp_reader' = p.st
             /\ unread' = Drop(unread, Len(rd.bytes))
             /\ \/ TcpPending(p)
                \/ TcpFrame(p)
                \/ TcpError(p)
                \/ TcpNone(p)
    /\ UNCHANGED <<tcp_writer, peerFrames, tcpOut, busRead, busErrSeen>>
    /\ UNCHANGED cvars

Next == BusFrame \/ BusError \/ BusNone \/ TcpNext

Spec == Init /\ [][Next]_vars

\* select! without `biased;` starts its poll at a branch chosen at random, so a
\* branch that stays ready is taken in some iteration
SpecFair == Spec /\ WF_vars(BusFrame) /\ WF_vars(TcpNext)

----------------------------------------------------------------------------
(* SpecListen: the listen driver, main.rs:156-176.  The loop accepts one   *)
(* connection and awaits pump_frames on it with the one bus socket opened  *)
(* before the loop.  pump_frames has no return path (a loop without break, *)
(* return or `?`), so the statement after the await is never reached; a    *)
(* panic inside the session unwinds through listen and main.               *)

ListenInit ==
    /\ status = "Accepting"
    /\ tcp_reader = NewReader
    /\ tcp_writer = <<>>
    /\ peerFrames = <<>> /\ unread = <<>>
    /\ tcpOut = <<>> /\ busRead = <<>> /\ busCalls = <<>>
    /\ busErrSeen = FALSE
    /\ lastIter = NoIter
    /\ cbuf = <<>> /\ cpend = <<>> /\ item = NoFrame /\ last = NoCall /\ prev = NoCall

\* tcp_listener.accept() returns a connection: pump_frames is entered on it
\* (FramedRead::new, FramedWrite::new) with the peer's stream still to come
Accept ==
    /\ status = "Accepting"
    /\ status' = "Running"
    /\ tcp_reader' = NewReader
    /\ tcp_writer' = <<>>
    /\ \E fs \in SeqsUpTo(PeerFrameSet, MaxPeerFrames) :
         /\ peerFrames' = fs
         /\ unread' = Wire(fs)
    /\ tcpOut' = <<>> /\ busRead' = <<>> /\ busCalls' = <<>>
    /\ busErrSeen' = FALSE
    /\ lastIter' = NoIter
    /\ UNCHANGED cvars

\* tcp_listener.accept() fails: `?` returns the error from listen
AcceptError ==
    /\ status = "Accepting"
    /\ status' = "Exited"
    /\ UNCHANGED <<tcp_reader, tcp_writer, peerFrames, unread, tcpOut, busRead, busCalls,
                   busErrSeen, lastIter>>
    /\ UNCHANGED cvars

ListenNext == Accept \/ AcceptError \/ BusFrame \/ BusError \/ BusNone \/ TcpNext

SpecListen == ListenInit /\ [][ListenNext]_vars

----------------------------------------------------------------------------
(* Properties of the codec (SpecCodec) *)

\* the ID word and the length byte at the head of a buffer of at least 5 bytes
HeadWord(b) == from_be_bytes(Take(b, 4))
HeadLen(b) == b[5]
\* the flags of the wire header: bits 31, 30 and 29 of the word are bits 7, 6 and
\* 5 of its first byte
HeadEFF(b) == (b[1] \div 128) % 2 = 1
HeadRTR(b) == (b[1] \div 64) % 2 = 1
HeadERR(b) == (b[1] \div 32) % 2 = 1
\* the bytes one frame occupies at the head of such a buffer
WireLen(b) == IF HeadRTR(b) THEN HEADER_LEN ELSE HEADER_LEN + HeadLen(b)
\* a buffer decode cannot take a frame from yet
Partial(b) == Len(b) < HEADER_LEN \/ Len(b) < WireLen(b)

\* the last two calls were encode into an empty buffer, then decode of the result
EncodedThenDecoded ==
    /\ prev.op = "encode" /\ prev.res = "Ok" /\ prev.pre = <<>>
    /\ last.op = "decode" /\ last.pre = prev.post

(* C1: a Data frame (standard or extended, payload 0..8) encoded into an    *)
(* empty buffer and decoded again comes back as a Data frame with the same  *)
(* identifier, extended flag and payload, and the buffer is empty again.    *)
C1_RoundTrip ==
    (EncodedThenDecoded /\ prev.arg.kind = "Data")
    => /\ last.res = "Some"
       /\ last.frame.kind = "Data"
       /\ raw_id(last.frame.can_id) = raw_id(prev.arg.can_id)
       /\ IsEFF(last.frame.can_id) = IsEFF(prev.arg.can_id)
       /\ FrameData(last.frame) = FrameData(prev.arg)
       /\ last.post = <<>>

C1_Witness ==
    /\ EncodedThenDecoded /\ prev.arg.kind = "Data"
    /\ IsEFF(prev.arg.can_id) /\ prev.arg.can_dlc = CAN_MAX_DLEN
    /\ last.res = "Some"

\* the last call was decode on a buffer whose ID word has the remote flag
DecodedRemoteWord ==
    /\ last.op = "decode" /\ Len(last.pre) >= HEADER_LEN
    /\ HeadRTR(last.pre)

(* C2 as stated: with at least 5 bytes and bit 30 set, decode consumes      *)
(* exactly 5 bytes and returns a Remote frame with the word's identifier    *)
(* and the length byte as requested length.                                 *)
C2_Original ==
    DecodedRemoteWord
    => /\ last.res = "Some"
       /\ last.post = Drop(last.pre, HEADER_LEN)
       /\ last.frame.kind = "Remote"
       /\ raw_id(last.frame.can_id) = raw_id(HeadWord(last.pre))
       /\ last.frame.can_dlc = HeadLen(last.pre)

(* C2 amended: with at least 5 bytes and bit 30 set, decode consumes        *)
(* exactly 5 bytes whatever the length byte and the following bytes are,    *)
(* and returns a frame with the word's identifier and the length byte as    *)
(* its length; the frame is a Remote frame when bit 29 (error) is clear and *)
(* an Error frame when bit 29 is set.                                       *)
C2_RemoteDecode ==
    DecodedRemoteWord
    => /\ last.res = "Some"
       /\ last.post = Drop(last.pre, HEADER_LEN)
       /\ last.frame.kind = (IF HeadERR(last.pre) THEN "Error" ELSE "Remote")
       /\ raw_id(last.frame.can_id) = raw_id(HeadWord(last.pre))
       /\ IsEFF(last.frame.can_id) = HeadEFF(last.pre)
       /\ last.frame.can_dlc = HeadLen(last.pre)

C2_Witness ==
    /\ DecodedRemoteWord /\ ~HeadERR(last.pre)
    /\ HeadLen(last.pre) = 255 /\ Len(last.pre) > HEADER_LEN
    /\ last.frame.kind = "Remote" /\ Len(last.post) = Len(last.pre) - HEADER_LEN

\* what the last encode call appended
Appended == Drop(last.post, Len(last.pre))

(* C3: encode of a Data or Remote frame succeeds and only appends: the      *)
(* bytes already in the buffer stay; a Data frame adds 5 + payload length   *)
(* bytes (big-endian ID word with bit 30 clear, the payload length, the     *)
(* payload) and a Remote frame adds exactly 5 (ID word with bit 30 set, the *)
(* requested length).                                                      *)
C3_EncodeAppends ==
    (last.op = "encode" /\ last.arg.kind \in {"Data", "Remote"})
    => /\ last.res = "Ok"
       /\ IsPrefix(last.pre, last.post)
       /\ Len(Appended) >= HEADER_LEN
       /\ HeadWord(Appended) = last.arg.can_id
       /\ HeadLen(Appended) = last.arg.can_dlc
       /\ last.arg.kind = "Data"
            => /\ ~HeadRTR(Appended)
               /\ Len(Appended) = HEADER_LEN + Len(FrameData(last.arg))
               /\ Drop(Appended, HEADER_LEN) = FrameData(last.arg)
       /\ last.arg.kind = "Remote"
            => /\ HeadRTR(Appended)
               /\ Len(Appended) = HEADER_LEN

C3_Witness ==
    /\ last.op = "encode" /\ last.arg.kind = "Remote" /\ last.arg.can_dlc = 3
    /\ last.pre # <<>> /\ last.res = "Ok"

(* C4: decode on a buffer with fewer than 5 bytes, or with a non-remote     *)
(* header and fewer payload bytes than its length byte declares, returns    *)
(* "no frame yet" and leaves the buffer as it was; once the missing bytes   *)
(* have been appended, the next decode returns the frame and consumes       *)
(* exactly the frame's bytes (5 + length) from the original start.          *)
C4_PartialThenComplete ==
    /\ (last.op = "decode" /\ Partial(last.pre))
         => (last.res = "None" /\ last.post = last.pre)
    /\ (/\ prev.op = "decode" /\ Partial(prev.pre)
        /\ last.op = "decode" /\ IsPrefix(prev.pre, last.pre)
        /\ ~Partial(last.pre))
         => (last.res = "Some" /\ last.post = Drop(last.pre, WireLen(last.pre)))

(* C5: when decode returns a frame from a buffer holding the frame's bytes  *)
(* followed by k further bytes, the buffer afterwards is exactly those k    *)
(* bytes in the same order.                                                 *)
C5_RestKept ==
    (last.op = "decode" /\ last.res = "Some")
    => /\ Len(last.post) = Len(last.pre) - WireLen(last.pre)
       /\ \A i \in 1..Len(last.post) : last.post[i] = last.pre[WireLen(last.pre) + i]

C5_Witness ==
    /\ last.op = "decode" /\ last.res = "Some" /\ last.frame.kind = "Data"
    /\ last.frame.can_dlc = 3 /\ Len(last.post) >= 3

(* C12: encode of an Error frame returns an "unsupported" error result     *)
(* instead of panicking, and appends nothing to the output buffer.         *)
C12_EncodeErrorUnsupported ==
    (last.op = "encode" /\ last.arg.kind = "Error")
    => /\ last.res = "Unsupported"
       /\ last.post = last.pre

(* C15: for every buffer content decode ends with "no frame yet", one      *)
(* frame consumed or an error result and never aborts; a non-remote header *)
(* with a length byte above 8 and all its bytes present is rejected or     *)
(* clamped, so a Data frame from decode never has more than 8 payload      *)
(* bytes.                                                                  *)
C15_DecodeNeverAborts ==
    last.op = "decode"
    => /\ last.res \in {"None", "Some", "Err"}
       /\ (last.res = "Some" /\ last.frame.kind = "Data")
            => Len(FrameData(last.frame)) <= CAN_MAX_DLEN

\* the last call was decode on a buffer whose ID word has the error flag
DecodedErrorWord ==
    /\ last.op = "decode" /\ Len(last.pre) >= HEADER_LEN
    /\ HeadERR(last.pre)

(* C16: decode never returns a Data frame for an ID word with bit 29       *)
(* (error) set, and what it consumes for such a word follows the rule of   *)
(* every other word: 5 bytes with the remote flag, 5 + len without.        *)
C16_ErrorWordNeverData ==
    DecodedErrorWord
    => /\ last.frame.kind # "Data"
       /\ last.res = "Some"
            => last.post = Drop(last.pre, WireLen(last.pre))

C16_Witness ==
    /\ DecodedErrorWord /\ ~HeadRTR(last.pre) /\ HeadLen(last.pre) = 3
    /\ last.res = "Some" /\ last.frame.kind = "Error"
    /\ Len(last.post) = Len(last.pre) - (HEADER_LEN + 3)

\* the bytes the decode call before the last call consumed
Consumed == Take(prev.pre, Len(prev.pre) - Len(prev.post))

\* the last two calls were decode of a complete wire frame without the error
\* flag and with a length byte of at most 8, then encode of the frame returned
DecodedThenEncoded ==
    /\ prev.op = "decode" /\ prev.res = "Some"
    /\ ~HeadERR(prev.pre) /\ HeadLen(prev.pre) <= CAN_MAX_DLEN
    /\ last.op = "encode" /\ last.arg = prev.frame

(* C19: decoding one complete wire frame (error flag clear, length byte at *)
(* most 8) and encoding the frame returned reproduces exactly the bytes    *)
(* decode consumed: identifier bits above bit 10 of a standard-format word *)
(* and a non-zero length byte of a Remote frame come back unchanged.       *)
C19_DecodeEncodeSameBytes ==
    DecodedThenEncoded
    => /\ last.res = "Ok"
       /\ Appended = Consumed

C19_Witness ==
    /\ DecodedThenEncoded
    /\ ~HeadEFF(prev.pre) /\ ~HeadRTR(prev.pre)
    /\ raw_id(prev.frame.can_id) # prev.frame.can_id.lo
    /\ HeadLen(prev.pre) = 3
    /\ Appended = Consumed

C19_WitnessRemote ==
    /\ DecodedThenEncoded
    /\ HeadRTR(prev.pre) /\ HeadLen(prev.pre) = 3
    /\ Appended = Consumed

----------------------------------------------------------------------------
(* Properties of the pump (Spec) *)

\* the frames a peer's decoder takes from a byte stream, in order
RECURSIVE DecodeAll(_)
DecodeAll(b) ==
    LET r == decode(b)
    IN  IF r.res = "Some" THEN <<r.frame>> \o DecodeAll(r.src) ELSE <<>>

\* the number of bytes of the peer's stream the reader has read
Received == Len(Wire(peerFrames)) - Len(unread)

\* how many of the peer's frames lie completely within its first n bytes
CompleteCount(n) ==
    Cardinality({k \in 1..Len(peerFrames) : Len(Wire(Take(peerFrames, k))) <= n})

SameIdAndPayload(f, g) ==
    /\ raw_id(f.can_id) = raw_id(g.can_id)
    /\ IsEFF(f.can_id) = IsEFF(g.can_id)
    /\ FrameData(f) = FrameData(g)

(* C6: however the TCP stream is split into reads, the frames handed to    *)
(* the bus are the frames the peer encoded, in the same order, and the     *)
(* frames written to TCP are the frames read from the bus, in the same     *)
(* order.                                                                  *)
C6_NoReorder ==
    /\ IsPrefix(busCalls, peerFrames)
    /\ IsPrefix(DecodeAll(tcpOut), busRead)

C6_Witness ==
    /\ Len(busCalls) = 2 /\ busCalls[1] # busCalls[2]
    /\ Len(DecodeAll(tcpOut)) = 2 /\ busRead[1] # busRead[2]

(* C7: every frame whose complete encoding the reader has received causes  *)
(* exactly one bus send with the same identifier and payload: no send      *)
(* happens for a frame not yet complete, none happens twice, and when the  *)
(* reader is back at waiting for bytes every complete frame has been sent. *)
C7_ExactlyOneSend ==
    /\ Len(busCalls) <= CompleteCount(Received)
    /\ \A i \in 1..Len(busCalls) :
         /\ i <= Len(peerFrames)
         /\ busCalls[i].kind = peerFrames[i].kind
         /\ SameIdAndPayload(busCalls[i], peerFrames[i])
    /\ ~tcp_reader.is_readable => Len(busCalls) = CompleteCount(Received)

C7_Witness ==
    /\ peerFrames = <<DataFrame(FALSE, 10, <<1, 2, 3>>)>>
    /\ unread = <<>> /\ ~tcp_reader.is_readable
    /\ Len(busCalls) = 1
    /\ raw_id(busCalls[1].can_id) = 10 /\ FrameData(busCalls[1]) = <<1, 2, 3>>
    /\ lastIter.branch = "tcp" /\ lastIter.slept

(* C8: a bus read error does not end the session (the pump is still        *)
(* Running after it), and a bus frame read after the error is encoded and  *)
(* written to the TCP connection.                                          *)
C8_BusErrorKeepsRunning ==
    /\ (lastIter.branch = "can" /\ lastIter.out = "Err") => status = "Running"
    /\ (busErrSeen /\ lastIter.branch = "can" /\ lastIter.out = "Frame" /\ lastIter.ok)
         => /\ status = "Running"
            /\ DecodeAll(tcpOut) = busRead

C8_Witness ==
    /\ busErrSeen /\ lastIter.branch = "can" /\ lastIter.out = "Frame" /\ lastIter.ok
    /\ Len(busRead) = 1 /\ DecodeAll(tcpOut) = busRead
    /\ status = "Running"

(* C9: at a clean end of stream on either side (the bus yields no more     *)
(* frames, or the TCP connection ends with nothing buffered) the session   *)
(* moves to Closed and pump_frames returns to its caller; it does not      *)
(* abort.                                                                  *)
C9_CleanEndCloses ==
    (lastIter.out = "None" /\ lastIter.cause = "eof") => status = "Closed"

\* the TCP connection has ended with part of a frame in the buffer, and the
\* poll has reported it
EndedMidFrame ==
    /\ lastIter.branch = "tcp" /\ lastIter.out = "Err"
    /\ tcp_reader.eof /\ tcp_reader.buffer # <<>>

(* C10: when the TCP connection ends with a partial frame in the buffer,   *)
(* the session ends with a fault classified "connection reset by peer"     *)
(* that pump_frames returns; the loop does not log and continue.           *)
C10_PartialFrameFaults ==
    EndedMidFrame
    => /\ status = "Faulted"
       /\ lastIter.cause = "connection reset by peer"

(* C13: the 10 ms delay after a bus send in the TCP-to-bus direction is    *)
(* applied only when the send succeeded; after a failed send the pump goes *)
(* back to waiting on both sources without sleeping.                       *)
C13_SleepOnlyAfterSuccess ==
    (lastIter.branch = "tcp" /\ lastIter.out = "Frame" /\ ~lastIter.ok)
    => ~lastIter.slept

(* C14: a read or decode error on the TCP side does not end the session:   *)
(* the pump is Running after the error has been logged, and the session    *)
(* does not end on account of that error afterwards, so later frames are   *)
(* still forwarded.                                                        *)
C14_TcpErrorKeepsRunning ==
    /\ (lastIter.branch = "tcp" /\ lastIter.out = "Err") => status = "Running"
    /\ (lastIter.branch = "tcp" /\ lastIter.cause = "errored") => status = "Running"

(* C17: whenever the TCP reader is about to read more bytes, its buffer    *)
(* holds no complete frame: fewer than 5 bytes, or a non-remote header     *)
(* with fewer payload bytes than its length byte declares.                 *)
C17_WaitsOnlyOnPartial ==
    ~tcp_reader.is_readable => Partial(tcp_reader.buffer)

C17_Witness ==
    /\ ~tcp_reader.is_readable /\ status = "Running"
    /\ Len(busCalls) = 1
    /\ Len(tcp_reader.buffer) > HEADER_LEN /\ Partial(tcp_reader.buffer)

\* an iteration that handles the bus branch
BusBranch == BusFrame \/ BusError

\* the reader holds a complete frame, already decodable, that has not been
\* handed to the bus yet
TcpFrameReady == tcp_reader.is_readable /\ ~Partial(tcp_reader.buffer)

\* frames completely received from the peer and not yet handed to the bus
TcpBacklog == Len(busCalls) < CompleteCount(Received)

----------------------------------------------------------------------------
(* Properties of the listen driver (SpecListen) *)

\* the session's TCP peer has closed the connection and the pump has seen it
PeerClosedSeen == lastIter.branch = "tcp" /\ lastIter.out = "None"

(* C11: in listen mode, after a session has ended because its TCP peer     *)
(* closed the connection, the driver is back at accept (or already in the  *)
(* next session) with the same bus socket; sessions never overlap.         *)
C11_AcceptsAfterSessionEnd ==
    PeerClosedSeen => status \in {"Accepting", "Running"}

=============================================================================
